---- MODULE Spec2Model ----
(***************************************************************************)
(* A model of the snake repository: the main application loop (main.py)    *)
(* with its fixed-interval logic tick, event drain and render pass, the    *)
(* experimental projectile physics (experimental/projectile.py), the grid  *)
(* points (elements.py) and the event handlers of main.py, snake.py and    *)
(* experimental/turret.py.                                                 *)
(*                                                                         *)
(* Times are milliseconds.  Projectile positions are exact rationals kept  *)
(* as integers in units of 1/SPEED_DEN pixel, so that speed * dir is an    *)
(* integer for every integer direction vector.                             *)
(***************************************************************************)
EXTENDS Integers, Sequences, FiniteSets

\* ------------------------------------------------------------------ bounds

\* Number of tick intervals of wall time the clock is followed for.
MaxIntervals == 2

\* Latest construction time of the application (time_ms() in __init__).
MaxStart == 1

\* Pending input events the event queue holds at most.
MaxQueue == 2

\* Projectile objects created at most.
MaxProj == 2

\* Direct Projectile.process_logic calls made on a free-standing projectile.
MaxSteps == 3

\* Render fractions are k / InterpSteps for k in 0..InterpSteps.
InterpSteps == 2

\* Grids have 1..MaxCols columns and 1..MaxRows rows.
MaxCols == 3

MaxRows == 2

\* Clone ticks of the moving element followed.
MaxMoves == 3

\* Key presses that move the snake followed.
MaxPresses == 2

\* -------------------------------------------------------- program constants

\* MainApp.TICK_STEP, in ms.
TICK_STEP == 250

\* Projectile.speed = 0.05 = SPEED_NUM / SPEED_DEN pixels per unit of direction.
SPEED_NUM == 1

SPEED_DEN == 20

\* MainApp.GRID_SIZE, the grid of the application: columns and rows.
GRID_COLUMNS == 20

GRID_ROWS == 20

\* Turret.INITIAL_ANGLE and Turret.AIM_SENSITIVITY, in degrees.
INITIAL_ANGLE == -45

AIM_SENSITIVITY == 10

\* ------------------------------------------------------------------- state

VARIABLES
    now,        \* the monotonic time source read by time_ms()
    t0,         \* the value time_ms() returned in MainApp.__init__
    next_tick,  \* MainApp._next_tick
    pc,         \* position in _main_loop: index of the next statement, 0 = run() returned
    pending,    \* the input events waiting in pygame's queue
    updates,    \* number of self._snake.update_state() calls made
    routed,     \* number of self._snake.handle_event() calls of the last drain
    unrouted,   \* events fetched by the last drain and never routed
    shown,      \* the number of updates the last presented frame reflects
    frame,      \* what the current iteration has executed so far, in order
    checks,     \* the last two tick checks: [now, deadline, fired]
    rect,       \* Blueprint.rect, the arena, in pixels: [x, y, w, h]
    heap,       \* every Projectile object created: [pos, dir, state], by identity
    projectiles,\* ProjectileManager._projectiles: the identities in the set
    stepped,    \* per object, the process_logic calls the last operation made on it
    drawn,      \* the circles the last build_surface drew: [id, interp, center]
    nsteps,     \* direct process_logic calls made on the free-standing projectile
    op          \* the last projectile operation performed

loopVars == <<now, t0, next_tick, pc, pending, updates, routed, unrouted,
              shown, frame, checks>>

projVars == <<rect, heap, projectiles, stepped, drawn, nsteps, op>>

VARIABLES
    grid,       \* Grid.size: <<columns, rows>>
    head,       \* GridElement.p of the moving element: a Point [x, y]
    apple,      \* GridElement.p of an element that was spawned at random
    state,      \* the heading (State) of the moving element
    origin,     \* the point the moving element had when its heading was set
    run,        \* clone ticks made since the heading was set
    moves,      \* clone ticks made in all
    cloned,     \* the last clone call: the point it was called on, afterwards, and its result
    hit,        \* the results of the last collision calls: p/apple, apple/p, p/p
    gop         \* the last grid operation performed

gridVars == <<grid, head, apple, state, origin, run, moves, cloned, hit, gop>>

VARIABLES
    snake_x,    \* Snake._x
    snake_y,    \* Snake._y
    aim,        \* Turret.aim: its polar angle in degrees, 0..359 (its length never changes)
    raised,     \* whether the last handle_quit call raised QuitApplication
    last_event, \* the last event handed to a handler
    handler,    \* the handler it was handed to
    presses     \* calls that changed the snake's position

inputVars == <<snake_x, snake_y, aim, raised, last_event, handler, presses>>

vars == <<loopVars, projVars, gridVars, inputVars>>

\* ------------------------------------------------------------ input events

QuitEvent    == [type |-> "QUIT",    key |-> "none"]
KeyUpQ       == [type |-> "KEYUP",   key |-> "K_q"]
KeyDownQ     == [type |-> "KEYDOWN", key |-> "K_q"]
KeyDownRight == [type |-> "KEYDOWN", key |-> "K_RIGHT"]

LoopEvents == {QuitEvent, KeyUpQ, KeyDownQ, KeyDownRight}

\* handle_quit: TRUE when the event makes it raise QuitApplication.
RaisesQuitOnWindowClose(event) == event.type = "QUIT"

RaisesQuit(event) ==
    \/ event.type = "QUIT"
    \/ event.type = "KEYUP" /\ event.key = "K_q"

\* Index of the first event of the batch on which handle_quit raises, 0 if none.
FirstQuit(batch) ==
    IF \E i \in 1..Len(batch) : RaisesQuit(batch[i])
    THEN CHOOSE i \in 1..Len(batch) :
            /\ RaisesQuit(batch[i])
            /\ \A j \in 1..(i - 1) : ~RaisesQuit(batch[j])
    ELSE 0

\* ------------------------------------------------------------ the tick clock

\* The instants the time source is observed at: around every deadline.
Times ==
    { t0 + k * TICK_STEP + d : k \in 0..MaxIntervals, d \in {-1, 0, 1} }

\* The tick decision of _main_loop: time_ms() > self._next_tick.
ShouldTickEarly(t, deadline) == t + TICK_STEP > deadline

ShouldTickAtDeadline(t, deadline) == t >= deadline

ShouldTick(t, deadline) == t > deadline

\* self._next_tick += self.TICK_STEP
AdvanceTwoIntervals(deadline) == deadline + 2 * TICK_STEP

Advance(deadline) == deadline + TICK_STEP

\* The statements of _main_loop, in program order.
MainLoopBodyDrainFirst == <<"events", "tick", "render">>

MainLoopBodyRenderFirst == <<"render", "tick", "events">>

MainLoopBodyRenderBeforeDrain == <<"tick", "render", "events">>

MainLoopBody == <<"tick", "events", "render">>

Stmt == IF pc = 0 THEN "done" ELSE MainLoopBody[pc]

NextPc == IF pc = Len(MainLoopBody) THEN 1 ELSE pc + 1

\* The log of the current iteration, extended by what a statement executed.
Logged(entries) == IF pc = 1 THEN entries ELSE frame \o entries

LastTwo(s) == IF Len(s) > 2 THEN SubSeq(s, Len(s) - 1, Len(s)) ELSE s

\* --------------------------------------------------------------- main loop

LoopInit ==
    /\ t0 \in 0..MaxStart
    /\ now = t0
    /\ next_tick = t0
    /\ pc = 1
    /\ pending = <<>>
    /\ updates = 0
    /\ routed = 0
    /\ unrouted = <<>>
    /\ shown = 0
    /\ frame = <<>>
    /\ checks = <<>>

\* The main loop before its first iteration, constructed at time 0.
LoopAtRest == LoopInit /\ t0 = 0

\* The time source moves on (never backwards) between two statements.
AdvanceTime ==
    /\ pc # 0
    /\ \E t \in Times : t > now /\ now' = t
    /\ UNCHANGED <<t0, next_tick, pc, pending, updates, routed, unrouted,
                   shown, frame, checks>>
    /\ UNCHANGED <<projVars, gridVars, inputVars>>

\* The platform queues an input event.
PostEvent ==
    /\ pc # 0
    /\ Len(pending) < MaxQueue
    /\ \E e \in LoopEvents : pending' = Append(pending, e)
    /\ UNCHANGED <<now, t0, next_tick, pc, updates, routed, unrouted,
                   shown, frame, checks>>
    /\ UNCHANGED <<projVars, gridVars, inputVars>>

\* if time_ms() > self._next_tick: update_state(); self._next_tick += TICK_STEP
TickCheck ==
    /\ Stmt = "tick"
    /\ LET fired == ShouldTick(now, next_tick) IN
        /\ updates' = IF fired THEN updates + 1 ELSE updates
        /\ next_tick' = IF fired THEN Advance(next_tick) ELSE next_tick
        /\ frame' = Logged(IF fired THEN <<"check", "update">> ELSE <<"check">>)
        /\ checks' = LastTwo(Append(checks,
                        [now |-> now, deadline |-> next_tick, fired |-> fired]))
    /\ pc' = NextPc
    /\ UNCHANGED <<now, t0, pending, routed, unrouted, shown>>
    /\ UNCHANGED <<projVars, gridVars, inputVars>>

\* self._handle_events(): every event of pygame.event.get() goes to handle_quit
\* and then to the snake; QuitApplication leaves _main_loop and ends run().
HandleEvents ==
    /\ Stmt = "events"
    /\ LET batch == pending
           q == FirstQuit(batch)
       IN
        /\ pending' = <<>>
        /\ IF q = 0
           THEN /\ routed' = Len(batch)
                /\ unrouted' = <<>>
                /\ frame' = Logged(<<"drain">>)
                /\ pc' = NextPc
           ELSE /\ routed' = q - 1
                /\ unrouted' = SubSeq(batch, q + 1, Len(batch))
                /\ frame' = Logged(<<"drain", "quit">>)
                /\ pc' = 0
    /\ UNCHANGED <<now, t0, next_tick, updates, shown, checks>>
    /\ UNCHANGED <<projVars, gridVars, inputVars>>

\* self._render_graphics(): the frame presents the current game state.
RenderGraphics ==
    /\ Stmt = "render"
    /\ shown' = updates
    /\ frame' = Logged(<<"render">>)
    /\ pc' = NextPc
    /\ UNCHANGED <<now, t0, next_tick, pending, updates, routed, unrouted, checks>>
    /\ UNCHANGED <<projVars, gridVars, inputVars>>

LoopNext ==
    \/ AdvanceTime
    \/ PostEvent
    \/ TickCheck
    \/ HandleEvents
    \/ RenderGraphics

\* ------------------------------------------------------------- projectiles

\* The arenas (Blueprint.rect) the projectiles are checked in, in pixels.
SmallArena == [x |-> 0, y |-> 0, w |-> 3, h |-> 2]

ScreenArena == [x |-> 0, y |-> 0, w |-> 600, h |-> 600]

\* A pixel position in position units.
Px(x, y) == <<x * SPEED_DEN, y * SPEED_DEN>>

\* Positions projectiles are created at (the pos argument), in position units.
SpawnPoints(r) ==
    IF r = ScreenArena
    THEN {Px(590, 300), Px(0, 0), Px(10, 599)}
    ELSE {Px(1, 1), Px(2, 1), <<-10, 30>>}

\* Direction vectors projectiles are created with (the dir argument), in pixels.
Dirs(r) ==
    IF r = ScreenArena
    THEN {<<200, 0>>, <<-200, 0>>, <<0, 20>>, <<0, -200>>, <<20, 20>>, <<1, 0>>}
    ELSE {<<20, 0>>, <<-20, 0>>, <<0, -20>>, <<10, 10>>}

\* Projectile.__init__
NewProjectile(dir, pos) == [pos |-> pos, dir |-> dir, state |-> "MOVING"]

\* pygame's Rect.collidepoint: the left and top edges are inside, the right
\* and bottom edges are not.
CollidePointClosed(r, x, y) ==
    /\ x >= r.x * SPEED_DEN /\ x <= (r.x + r.w) * SPEED_DEN
    /\ y >= r.y * SPEED_DEN /\ y <= (r.y + r.h) * SPEED_DEN

CollidePoint(r, x, y) ==
    /\ x >= r.x * SPEED_DEN /\ x < (r.x + r.w) * SPEED_DEN
    /\ y >= r.y * SPEED_DEN /\ y < (r.y + r.h) * SPEED_DEN

\* Projectile._oos_collision
OosCollision(p, r) == ~CollidePoint(r, p.pos[1], p.pos[2])

\* Projectile.velocity: self.speed * self._dir
VelocityUnscaled(p) == <<SPEED_DEN * p.dir[1], SPEED_DEN * p.dir[2]>>

Velocity(p) == <<SPEED_NUM * p.dir[1], SPEED_NUM * p.dir[2]>>

\* Projectile.process_logic
ProcessLogicCheckFirst(p, r) ==
    LET moved == [p EXCEPT !.pos = <<p.pos[1] + Velocity(p)[1],
                                     p.pos[2] + Velocity(p)[2]>>]
    IN  IF OosCollision(p, r) THEN [moved EXCEPT !.state = "DELETED"] ELSE moved

ProcessLogic(p, r) ==
    LET moved == [p EXCEPT !.pos = <<p.pos[1] + Velocity(p)[1],
                                     p.pos[2] + Velocity(p)[2]>>]
    IN  IF OosCollision(moved, r) THEN [moved EXCEPT !.state = "DELETED"] ELSE moved

\* Projectile.get_render_position(interp) for interp = k / InterpSteps: the
\* lerp from the current to the predicted next position, times InterpSteps.
GetRenderPositionFromNext(p, k) ==
    LET next_pos == <<p.pos[1] + Velocity(p)[1], p.pos[2] + Velocity(p)[2]>>
    IN  <<InterpSteps * next_pos[1] + k * (p.pos[1] - next_pos[1]),
          InterpSteps * next_pos[2] + k * (p.pos[2] - next_pos[2])>>

GetRenderPosition(p, k) ==
    LET next_pos == <<p.pos[1] + Velocity(p)[1], p.pos[2] + Velocity(p)[2]>>
    IN  <<InterpSteps * p.pos[1] + k * (next_pos[1] - p.pos[1]),
          InterpSteps * p.pos[2] + k * (next_pos[2] - p.pos[2])>>

NoSteps == [id \in 1..Len(heap) |-> 0]

\* The loop of ProjectileManager.process_logic over the objects still to visit:
\* the heap, the to_be_removed set and the calls made when the loop ends.
RECURSIVE ForEachProjectile(_, _, _, _)
ForEachProjectile(todo, h, to_be_removed, calls) ==
    IF todo = {}
    THEN [heap |-> h, to_be_removed |-> to_be_removed, calls |-> calls]
    ELSE LET proj == CHOOSE id \in todo : TRUE
             after == ProcessLogic(h[proj], rect)
         IN  ForEachProjectile(
                todo \ {proj},
                [h EXCEPT ![proj] = after],
                IF after.state = "DELETED"
                    THEN to_be_removed \cup {proj} ELSE to_be_removed,
                [calls EXCEPT ![proj] = @ + 1])

\* self._projectiles -= to_be_removed
RemoveNone(set, to_be_removed) == set

RemoveAssign(set, to_be_removed) == to_be_removed

Remove(set, to_be_removed) == set \ to_be_removed

\* ProjectileManager.create_projectile
CreateProjectile ==
    /\ Len(heap) < MaxProj
    /\ \E dir \in Dirs(rect), pos \in SpawnPoints(rect) :
        heap' = Append(heap, NewProjectile(dir, pos))
    /\ projectiles' = projectiles \cup {Len(heap) + 1}
    /\ stepped' = [id \in 1..(Len(heap) + 1) |-> 0]
    /\ op' = "create"
    /\ UNCHANGED <<rect, drawn, nsteps>>
    /\ UNCHANGED <<loopVars, gridVars, inputVars>>

\* ProjectileManager.process_logic
ManagerProcessLogic ==
    /\ LET done == ForEachProjectile(projectiles, heap, {}, NoSteps) IN
        /\ heap' = done.heap
        /\ projectiles' = Remove(projectiles, done.to_be_removed)
        /\ stepped' = done.calls
    /\ op' = "process_logic"
    /\ UNCHANGED <<rect, drawn, nsteps>>
    /\ UNCHANGED <<loopVars, gridVars, inputVars>>

\* ProjectileManager.build_surface
BuildSurface ==
    /\ \E k \in 0..InterpSteps :
        drawn' = { [id |-> id, interp |-> k,
                    center |-> GetRenderPosition(heap[id], k)] :
                    id \in projectiles }
    /\ stepped' = NoSteps
    /\ op' = "render"
    /\ UNCHANGED <<rect, heap, projectiles, nsteps>>
    /\ UNCHANGED <<loopVars, gridVars, inputVars>>

\* Projectile.process_logic called on a free-standing projectile.
ProjectileStep ==
    /\ Len(heap) = 1
    /\ nsteps < MaxSteps
    /\ heap' = [heap EXCEPT ![1] = ProcessLogic(heap[1], rect)]
    /\ stepped' = [stepped EXCEPT ![1] = 1]
    /\ nsteps' = nsteps + 1
    /\ op' = "step"
    /\ UNCHANGED <<rect, projectiles, drawn>>
    /\ UNCHANGED <<loopVars, gridVars, inputVars>>

\* Projectile.get_render_position called on a free-standing projectile.
ProjectileRenderPosition ==
    /\ Len(heap) = 1
    /\ \E k \in 0..InterpSteps :
        drawn' = { [id |-> 1, interp |-> k,
                    center |-> GetRenderPosition(heap[1], k)] }
    /\ op' = "position"
    /\ UNCHANGED <<rect, heap, projectiles, stepped, nsteps>>
    /\ UNCHANGED <<loopVars, gridVars, inputVars>>

\* -------------------------------------------------------------------- grid

\* The members of State that Point.clone tells apart.
States == {"UP", "DOWN", "RIGHT", "LEFT"}

Point(x, y) == [x |-> x, y |-> y]

\* Point.clone: the point it is called on, as the call leaves it, and the
\* new point it returns.
CloneYUp(point, st) ==
    LET new_x == IF st = "RIGHT" THEN point.x + 1
                 ELSE IF st = "LEFT" THEN point.x - 1 ELSE point.x
        new_y == IF st = "UP" THEN point.y + 1
                 ELSE IF st = "DOWN" THEN point.y - 1 ELSE point.y
    IN  [self |-> point, result |-> Point(new_x, new_y)]

Clone(point, st) ==
    LET new_x == IF st = "RIGHT" THEN point.x + 1
                 ELSE IF st = "LEFT" THEN point.x - 1 ELSE point.x
        new_y == IF st = "UP" THEN point.y - 1
                 ELSE IF st = "DOWN" THEN point.y + 1 ELSE point.y
    IN  [self |-> point, result |-> Point(new_x, new_y)]

\* Point.collision
CollisionXOnly(a, b) == a.x = b.x

Collision(a, b) == a.x = b.x /\ a.y = b.y

\* random.randint(a, b): any integer of a..b, both ends included.
RandInt(a, b) == a..b

\* RandomPoint.__init__: the points it can produce for a grid of that size.
RandomPointUpToSize(size) ==
    { Point(x, y) : x \in RandInt(0, size[1]), y \in RandInt(0, size[2]) }

RandomPoint(size) ==
    { Point(x, y) : x \in RandInt(0, size[1] - 1), y \in RandInt(0, size[2] - 1) }

\* GridElement.__init__: the point given, or a random one.
GridElementPoint(size, given) ==
    IF given = {} THEN RandomPoint(size) ELSE given

GridInit ==
    /\ grid \in (1..MaxCols) \X (1..MaxRows)
    /\ \E given \in {{}, {Point(5, 5)}} : head \in GridElementPoint(grid, given)
    /\ apple \in GridElementPoint(grid, {})
    /\ state \in States
    /\ origin = head
    /\ run = 0
    /\ moves = 0
    /\ cloned = [self |-> head, result |-> head]
    /\ hit = [ab |-> FALSE, ba |-> FALSE, aa |-> FALSE]
    /\ gop = "init"

\* The grid side while another part is checked.
GridAtRest == GridInit /\ grid = <<1, 1>> /\ head = Point(0, 0) /\ state = "RIGHT"

\* A logic tick of the moving element: its point is replaced by its clone.
CloneTick ==
    /\ moves < MaxMoves
    /\ cloned' = Clone(head, state)
    /\ head' = cloned'.result
    /\ run' = run + 1
    /\ moves' = moves + 1
    /\ gop' = "clone"
    /\ UNCHANGED <<grid, apple, state, origin, hit>>
    /\ UNCHANGED <<loopVars, projVars, inputVars>>

\* An input event assigns another heading to the moving element.
SetState ==
    /\ \E st \in States \ {state} : state' = st
    /\ origin' = head
    /\ run' = 0
    /\ gop' = "heading"
    /\ UNCHANGED <<grid, head, apple, moves, cloned, hit>>
    /\ UNCHANGED <<loopVars, projVars, inputVars>>

\* The moving element is tested against the apple, both ways, and against itself.
Collide ==
    /\ hit' = [ab |-> Collision(head, apple), ba |-> Collision(apple, head),
               aa |-> Collision(head, head)]
    /\ gop' = "collision"
    /\ UNCHANGED <<grid, head, apple, state, origin, run, moves, cloned>>
    /\ UNCHANGED <<loopVars, projVars, inputVars>>

GridNext ==
    \/ CloneTick
    \/ SetState
    \/ Collide

\* ------------------------------------------------------------ input handlers

\* The events the handlers are given: every kind, with and without a key.
InputEvents ==
    { [type |-> "QUIT", key |-> "none"], [type |-> "MOUSEMOTION", key |-> "none"] }
    \cup [type : {"KEYDOWN", "KEYUP"},
          key : {"K_q", "K_a", "K_UP", "K_DOWN", "K_RIGHT", "K_LEFT"}]

\* Snake.move_x and Snake.move_y
MoveX(pos, step) == <<pos[1] + step, pos[2]>>

MoveY(pos, step) == <<pos[1], pos[2] + step>>

\* Snake.handle_input: the position <<_x, _y>> after the call.
HandleInputAnyType(pos, e) ==
    LET a == IF e.key = "K_UP" THEN MoveY(pos, -1) ELSE pos
        b == IF e.key = "K_DOWN" THEN MoveY(a, 1) ELSE a
        c == IF e.key = "K_RIGHT" THEN MoveX(b, 1) ELSE b
    IN  IF e.key = "K_LEFT" THEN MoveX(c, -1) ELSE c

HandleInput(pos, e) ==
    IF e.type = "KEYDOWN"
    THEN LET a == IF e.key = "K_UP" THEN MoveY(pos, -1) ELSE pos
             b == IF e.key = "K_DOWN" THEN MoveY(a, 1) ELSE a
             c == IF e.key = "K_RIGHT" THEN MoveX(b, 1) ELSE b
         IN  IF e.key = "K_LEFT" THEN MoveX(c, -1) ELSE c
    ELSE pos

\* Vector2.rotate on the aim: its polar angle moves by that many degrees.
Rotate(angle, degrees) == (angle + degrees) % 360

\* Turret.handle_event: the aim after the call.
TurretHandleEvent(angle, e) ==
    IF e.type # "KEYDOWN" THEN angle
    ELSE IF e.key = "K_RIGHT" THEN Rotate(angle, AIM_SENSITIVITY)
    ELSE IF e.key = "K_LEFT" THEN Rotate(angle, 0 - AIM_SENSITIVITY)
    ELSE angle

InputInit ==
    /\ snake_x = 0
    /\ snake_y = 0
    /\ aim = INITIAL_ANGLE % 360
    /\ raised = FALSE
    /\ last_event = [type |-> "none", key |-> "none"]
    /\ handler = "none"
    /\ presses = 0

InputAtRest == InputInit

\* handle_quit(event)
QuitHandler ==
    /\ \E e \in InputEvents :
        /\ last_event' = e
        /\ raised' = RaisesQuit(e)
    /\ handler' = "handle_quit"
    /\ UNCHANGED <<snake_x, snake_y, aim, presses>>
    /\ UNCHANGED <<loopVars, projVars, gridVars>>

\* Turret.handle_event(event)
TurretHandler ==
    /\ \E e \in InputEvents :
        /\ last_event' = e
        /\ aim' = TurretHandleEvent(aim, e)
    /\ handler' = "Turret.handle_event"
    /\ raised' = FALSE
    /\ UNCHANGED <<snake_x, snake_y, presses>>
    /\ UNCHANGED <<loopVars, projVars, gridVars>>

\* Snake.handle_input(event)
SnakeHandler ==
    /\ \E e \in InputEvents :
        LET after == HandleInput(<<snake_x, snake_y>>, e) IN
        /\ after # <<snake_x, snake_y>> => presses < MaxPresses
        /\ last_event' = e
        /\ snake_x' = after[1]
        /\ snake_y' = after[2]
        /\ presses' = IF after # <<snake_x, snake_y>> THEN presses + 1 ELSE presses
    /\ handler' = "Snake.handle_input"
    /\ raised' = FALSE
    /\ UNCHANGED aim
    /\ UNCHANGED <<loopVars, projVars, gridVars>>

InputNext ==
    \/ QuitHandler
    \/ TurretHandler
    \/ SnakeHandler

\* ----------------------------------------------------------- specifications

\* The projectile side while the main loop is checked.
NoProjectiles ==
    /\ rect = SmallArena
    /\ heap = <<>>
    /\ projectiles = {}
    /\ stepped = <<>>
    /\ drawn = {}
    /\ nsteps = 0
    /\ op = "init"

Init == LoopInit /\ NoProjectiles /\ GridAtRest /\ InputAtRest

Next == LoopNext

Spec == Init /\ [][Next]_vars

\* A ProjectileManager on the small arena, driven by its three operations.
ManagerInit == LoopAtRest /\ NoProjectiles /\ GridAtRest /\ InputAtRest

ManagerNext ==
    \/ CreateProjectile
    \/ ManagerProcessLogic
    \/ BuildSurface

SpecManager == ManagerInit /\ [][ManagerNext]_vars

\* One free-standing projectile, stepped by direct process_logic calls.
ProjectileInit ==
    /\ LoopAtRest
    /\ GridAtRest
    /\ InputAtRest
    /\ rect \in {SmallArena, ScreenArena}
    /\ \E dir \in Dirs(rect), pos \in SpawnPoints(rect) :
        heap = <<NewProjectile(dir, pos)>>
    /\ projectiles = {}
    /\ stepped = <<0>>
    /\ drawn = {}
    /\ nsteps = 0
    /\ op = "init"

ProjectileNext ==
    \/ ProjectileStep
    \/ ProjectileRenderPosition

SpecProjectile == ProjectileInit /\ [][ProjectileNext]_vars

\* A grid with a moving element and an apple.
GridSpecInit == LoopAtRest /\ NoProjectiles /\ GridInit /\ InputAtRest

SpecGrid == GridSpecInit /\ [][GridNext]_vars

\* The three event handlers, each given any event at any time.
InputSpecInit == LoopAtRest /\ NoProjectiles /\ GridAtRest /\ InputInit

SpecInput == InputSpecInit /\ [][InputNext]_vars

\* ------------------------------------------------------------------ claims

Has(label) == \E i \in 1..Len(frame) : frame[i] = label

Count(label) == Cardinality({i \in 1..Len(frame) : frame[i] = label})

LastCheck == checks[Len(checks)]

\* C1: a tick check fires at most one logic tick, and every fired tick adds
\* exactly one interval to the deadline however late the check is: the
\* deadline is its initial value plus (ticks fired) x interval.
TickAddsOneInterval ==
    /\ next_tick = t0 + updates * TICK_STEP
    /\ Count("update") <= 1
    /\ Count("check") <= 1
    /\ checks # <<>> =>
        next_tick = LastCheck.deadline + (IF LastCheck.fired THEN TICK_STEP ELSE 0)
    /\ Len(checks) = 2 =>
        checks[2].deadline =
            checks[1].deadline + (IF checks[1].fired THEN TICK_STEP ELSE 0)

\* C1 witness: a check two intervals late fired one tick and left a backlog.
BacklogNotCaughtUp ==
    /\ checks # <<>>
    /\ LastCheck.fired
    /\ LastCheck.now > LastCheck.deadline + 2 * TICK_STEP
    /\ next_tick = LastCheck.deadline + TICK_STEP
    /\ Count("update") = 1

\* C2 as stated: the tick check fires exactly when now >= nextDeadline.
TickFiresAtDeadline ==
    \A i \in 1..Len(checks) :
        checks[i].fired <=> checks[i].now >= checks[i].deadline

\* C2, amended: the tick check fires exactly when now > nextDeadline; a check
\* at or before the deadline does not fire, a check 1 ms past it fires and
\* moves the deadline by one interval, and a second check at that same time
\* does not fire.
TickFiresOnlyPastDeadline ==
    /\ \A i \in 1..Len(checks) :
        /\ checks[i].fired <=> checks[i].now > checks[i].deadline
        /\ checks[i].now = checks[i].deadline => ~checks[i].fired
        /\ checks[i].now = checks[i].deadline - 1 => ~checks[i].fired
    /\ checks # <<>> /\ LastCheck.now = LastCheck.deadline + 1 =>
        next_tick = LastCheck.deadline + TICK_STEP
    /\ (Len(checks) = 2 /\ checks[1].now = checks[1].deadline + 1
            /\ checks[2].now = checks[1].now) =>
        checks[1].fired /\ ~checks[2].fired

\* C2 witness: a check at exactly the deadline did not fire, the next check,
\* 1 ms later, did.
CheckAtDeadlineThenPast ==
    /\ Len(checks) = 2
    /\ checks[1].now = checks[1].deadline /\ ~checks[1].fired
    /\ checks[2].now = checks[2].deadline + 1 /\ checks[2].fired
    /\ next_tick = checks[2].deadline + TICK_STEP

\* C3 as stated: in every frame the pending events are drained before the
\* tick decision of that frame is taken.
DrainBeforeTickCheck ==
    \A i \in 1..Len(frame) :
        frame[i] = "check" => \E j \in 1..(i - 1) : frame[j] = "drain"

\* C3, amended: in every frame the tick decision is taken first, the pending
\* events are drained after it, and the drain precedes the frame's render.
TickCheckBeforeDrain ==
    /\ \A j \in 1..Len(frame) :
        frame[j] = "drain" => \E i \in 1..(j - 1) : frame[i] = "check"
    /\ \A k \in 1..Len(frame) :
        frame[k] = "render" => \E j \in 1..(k - 1) : frame[j] = "drain"
    /\ \A i, j \in 1..Len(frame) :
        frame[i] = "update" /\ frame[j] = "drain" => i < j

\* C3 witness: a frame fired a tick, then routed an event, then rendered.
TickThenDrainThenRender ==
    /\ frame = <<"check", "update", "drain", "render">>
    /\ routed > 0

\* C4: in a frame that renders, at most one tick fired, it fired before the
\* render, nothing of the frame follows the render, and the frame presents
\* the state after that tick.
RenderAfterTick ==
    /\ Count("update") <= 1
    /\ \A i \in 1..Len(frame) :
        frame[i] = "render" => i = Len(frame) /\ shown = updates

\* C4 witness: a rendered frame whose tick was the second one fired.
RenderedAfterOneTick ==
    /\ frame # <<>>
    /\ frame[Len(frame)] = "render"
    /\ Has("update")
    /\ updates = 2
    /\ shown = 2

\* C5 as stated: when a termination signal is met the loop stops only after
\* the rest of the drain was routed and the frame's render was performed.
QuitCompletesIteration ==
    pc = 0 => unrouted = <<>> /\ Has("render")

\* C5, amended: when a termination signal is met the loop stops at once: the
\* events of that drain after it are not routed and the frame is not
\* rendered; the frame's tick decision was completed before the drain.
QuitLeavesAtOnce ==
    pc = 0 =>
        /\ frame[Len(frame)] = "quit"
        /\ ~Has("render")
        /\ frame[1] = "check"
        /\ next_tick = t0 + updates * TICK_STEP
        /\ pending = <<>>

\* C5 witness: the loop stopped in a frame that fired a tick, with an event
\* of the drain left unrouted after the quit.
QuitWithEventsLeft ==
    /\ pc = 0
    /\ Has("update")
    /\ unrouted # <<>>

\* The position lies outside the arena: left of or above it, or on or beyond
\* its right or bottom edge.
OutsideArena(pos) ==
    \/ pos[1] < rect.x * SPEED_DEN
    \/ pos[1] >= (rect.x + rect.w) * SPEED_DEN
    \/ pos[2] < rect.y * SPEED_DEN
    \/ pos[2] >= (rect.y + rect.h) * SPEED_DEN

\* C6: one process_logic call on a MOVING projectile moves it by its velocity
\* (speed x dir) and then leaves it DELETED iff the new position is outside
\* the arena; inside, it stays MOVING.
StepMovesThenTestsBounds ==
    [][(op' = "step" /\ heap[1].state = "MOVING") =>
        /\ heap'[1].pos[1] = heap[1].pos[1] + SPEED_NUM * heap[1].dir[1]
        /\ heap'[1].pos[2] = heap[1].pos[2] + SPEED_NUM * heap[1].dir[2]
        /\ heap'[1].dir = heap[1].dir
        /\ heap'[1].state = (IF OutsideArena(heap'[1].pos) THEN "DELETED" ELSE "MOVING")
      ]_vars

\* C6 witness: the first step left the projectile inside and MOVING, the
\* second took it outside and DELETED it.
SteppedInsideThenOut ==
    /\ op = "step"
    /\ nsteps = 2
    /\ heap[1].state = "DELETED"
    /\ OutsideArena(heap[1].pos)
    /\ ~OutsideArena(<<heap[1].pos[1] - SPEED_NUM * heap[1].dir[1],
                       heap[1].pos[2] - SPEED_NUM * heap[1].dir[2]>>)

\* C7: one manager process_logic call steps every projectile of the set once
\* and no other object, and the set afterwards is the starting set minus the
\* projectiles that became DELETED in the call.
ManagerStepsEachOnce ==
    [][op' = "process_logic" =>
        /\ Len(heap') = Len(heap)
        /\ \A id \in 1..Len(heap) :
            IF id \in projectiles
            THEN /\ stepped'[id] = 1
                 /\ heap'[id].pos = <<heap[id].pos[1] + SPEED_NUM * heap[id].dir[1],
                                      heap[id].pos[2] + SPEED_NUM * heap[id].dir[2]>>
            ELSE /\ stepped'[id] = 0
                 /\ heap'[id] = heap[id]
        /\ projectiles' =
            projectiles \ {id \in projectiles :
                heap[id].state = "MOVING" /\ heap'[id].state = "DELETED"}
        /\ \A id \in projectiles : heap'[id].state = "MOVING" => id \in projectiles'
      ]_vars

\* C7 witness: a call stepped two projectiles, removed the one that became
\* DELETED and kept the one that stayed MOVING.
SteppedBothRemovedOne ==
    /\ op = "process_logic"
    /\ \E a, b \in 1..Len(heap) :
        /\ stepped[a] = 1 /\ heap[a].state = "DELETED" /\ a \notin projectiles
        /\ stepped[b] = 1 /\ heap[b].state = "MOVING" /\ b \in projectiles

\* C8: a DELETED projectile stays DELETED, is never stepped again and never
\* returns to the set, whatever the manager does next.
DeletedIsTerminal ==
    [][\A id \in 1..Len(heap) :
        heap[id].state = "DELETED" =>
            /\ heap'[id] = heap[id]
            /\ stepped'[id] = 0
            /\ id \notin projectiles'
      ]_vars

\* C8 witness: a later call stepped another projectile and left the DELETED
\* one alone.
DeletedSkippedByLaterCall ==
    /\ op = "process_logic"
    /\ \E a, b \in 1..Len(heap) :
        /\ heap[a].state = "DELETED" /\ stepped[a] = 0
        /\ stepped[b] = 1

\* C9: between manager operations the set holds no DELETED projectile, so
\* build_surface draws MOVING projectiles only, and all of them.
NoDeletedRendered ==
    /\ \A id \in projectiles : heap[id].state = "MOVING"
    /\ op = "render" =>
        /\ \A d \in drawn : heap[d.id].state = "MOVING"
        /\ {d.id : d \in drawn} = projectiles

\* C9 witness: a surface was built from a non-empty set after a projectile
\* had been DELETED.
RenderedAfterDeletion ==
    /\ op = "render"
    /\ drawn # {}
    /\ \E id \in 1..Len(heap) : heap[id].state = "DELETED"

\* C10: the bounds test is inclusive-exclusive: a step landing on the left or
\* top edge leaves the projectile MOVING, one landing on the right or bottom
\* edge DELETES it; in the arena (0,0)-(600,600) a projectile at (590,300)
\* with velocity (10,0) is at (600,300) after one step and at (610,300), and
\* DELETED, after a second.
ArenaEdgesInclusiveExclusive ==
    [][op' = "step" =>
        LET x == heap'[1].pos[1]
            y == heap'[1].pos[2]
            left == rect.x * SPEED_DEN
            top == rect.y * SPEED_DEN
            right == (rect.x + rect.w) * SPEED_DEN
            bottom == (rect.y + rect.h) * SPEED_DEN
            scenario == rect = ScreenArena /\ Velocity(heap[1]) = Px(10, 0)
        IN
        /\ (heap[1].state = "MOVING" /\ (x = left \/ y = top)
                /\ left <= x /\ x < right /\ top <= y /\ y < bottom) =>
            heap'[1].state = "MOVING"
        /\ (heap[1].state = "MOVING" /\ (x = right \/ y = bottom)) =>
            heap'[1].state = "DELETED"
        /\ (scenario /\ heap[1].pos = Px(590, 300)) =>
            heap'[1].pos = Px(600, 300)
        /\ (scenario /\ heap[1].pos = Px(600, 300)) =>
            heap'[1].pos = Px(610, 300) /\ heap'[1].state = "DELETED"
      ]_vars

\* C10 witness: the scenario's projectile after its second step.
ScenarioSecondStep ==
    /\ rect = ScreenArena
    /\ nsteps = 2
    /\ Velocity(heap[1]) = Px(10, 0)
    /\ heap[1].pos = Px(610, 300)
    /\ heap[1].state = "DELETED"

\* C11: get_render_position(k / InterpSteps) is the current position plus
\* that fraction of the velocity (centers are kept times InterpSteps):
\* fraction 0 gives the current position, fraction 1 the position one
\* velocity step ahead, and the call changes neither position nor state.
RenderPositionInterpolates ==
    [][op' = "position" =>
        /\ heap' = heap
        /\ \A d \in drawn' :
            /\ d.center[1] = InterpSteps * heap[1].pos[1]
                                + d.interp * SPEED_NUM * heap[1].dir[1]
            /\ d.center[2] = InterpSteps * heap[1].pos[2]
                                + d.interp * SPEED_NUM * heap[1].dir[2]
            /\ d.interp = 0 =>
                d.center = <<InterpSteps * heap[1].pos[1],
                             InterpSteps * heap[1].pos[2]>>
            /\ d.interp = InterpSteps =>
                d.center = <<InterpSteps * (heap[1].pos[1] + SPEED_NUM * heap[1].dir[1]),
                             InterpSteps * (heap[1].pos[2] + SPEED_NUM * heap[1].dir[2])>>
      ]_vars

\* C11 witness: a stepped projectile asked for its position at fraction 1.
RenderPositionAtFullFraction ==
    /\ op = "position"
    /\ nsteps = 1
    /\ heap[1].state = "MOVING"
    /\ \E d \in drawn :
        /\ d.interp = InterpSteps
        /\ d.center # <<InterpSteps * heap[1].pos[1], InterpSteps * heap[1].pos[2]>>

\* C12 as stated: the displacement of one step has the magnitude of the
\* scalar speed (SPEED_NUM position units), whatever the direction's length.
StepHasSpeedMagnitude ==
    [][op' = "step" =>
        (heap'[1].pos[1] - heap[1].pos[1]) * (heap'[1].pos[1] - heap[1].pos[1])
        + (heap'[1].pos[2] - heap[1].pos[2]) * (heap'[1].pos[2] - heap[1].pos[2])
        = SPEED_NUM * SPEED_NUM
      ]_vars

\* C12, amended: the velocity is speed times the direction vector as passed,
\* not normalized: the displacement of one step has magnitude speed x |dir|,
\* which is the scalar speed only for a direction of length 1.
StepHasSpeedTimesDirMagnitude ==
    [][op' = "step" =>
        LET dx == heap'[1].pos[1] - heap[1].pos[1]
            dy == heap'[1].pos[2] - heap[1].pos[2]
            len2 == heap[1].dir[1] * heap[1].dir[1] + heap[1].dir[2] * heap[1].dir[2]
        IN  /\ dx * dx + dy * dy = SPEED_NUM * SPEED_NUM * len2
            /\ (dx * dx + dy * dy = SPEED_NUM * SPEED_NUM) <=> len2 = 1
      ]_vars

\* C12 witness: a direction of length 200 moved the projectile by 10 pixels
\* in one step, 200 times the scalar speed.
StepOfLongDirection ==
    /\ op = "step"
    /\ nsteps = 1
    /\ heap[1].dir = <<200, 0>>
    /\ heap[1].pos = Px(600, 300)

\* C13 as stated: the snake's cell is inside the application's grid,
\* [0, columns) x [0, rows), in every reachable state.
SnakeCellInsideGrid ==
    /\ 0 <= snake_x /\ snake_x < GRID_COLUMNS
    /\ 0 <= snake_y /\ snake_y < GRID_ROWS

\* The delta each heading stands for: Up y-1, Down y+1, Right x+1, Left x-1.
HeadingDelta(st) ==
    IF st = "UP" THEN <<0, -1>>
    ELSE IF st = "DOWN" THEN <<0, 1>>
    ELSE IF st = "RIGHT" THEN <<1, 0>>
    ELSE <<-1, 0>>

\* C14: clone returns the point displaced by the heading's delta and leaves
\* the point it was called on unchanged, so n ticks under one heading move
\* the cell by n deltas: from (5,5) heading Right, 3 ticks give (8,5).
CloneAddsHeadingDelta ==
    /\ gop = "clone" =>
        /\ cloned.result = head
        /\ cloned.result.x = cloned.self.x + HeadingDelta(state)[1]
        /\ cloned.result.y = cloned.self.y + HeadingDelta(state)[2]
    /\ head.x = origin.x + run * HeadingDelta(state)[1]
    /\ head.y = origin.y + run * HeadingDelta(state)[2]
    /\ (origin = Point(5, 5) /\ state = "RIGHT" /\ run = 3) => head = Point(8, 5)

\* C14 witness: the third tick heading Right of an element that began at (5,5).
ThreeTicksRight ==
    /\ gop = "clone"
    /\ origin = Point(5, 5)
    /\ state = "RIGHT"
    /\ run = 3
    /\ head = Point(8, 5)
    /\ cloned.self = Point(7, 5)

\* The events each handler recognizes.
IsQuitEvent(e) == e.type = "QUIT" \/ (e.type = "KEYUP" /\ e.key = "K_q")

IsAimEvent(e) == e.type = "KEYDOWN" /\ e.key \in {"K_RIGHT", "K_LEFT"}

IsArrowPress(e) ==
    e.type = "KEYDOWN" /\ e.key \in {"K_UP", "K_DOWN", "K_RIGHT", "K_LEFT"}

\* C15: every event given to a handler causes zero or one action and no
\* error: handle_quit raises only for QUIT or KEYUP of q, Turret.handle_event
\* turns the aim only for KEYDOWN of the right or left arrow (by one
\* sensitivity step), Snake.handle_input moves the cell only for KEYDOWN of
\* an arrow (by one cell on one axis); any other event changes no game state.
EventsRouteToAtMostOneAction ==
    [][ LET e == last_event'
            dx == snake_x' - snake_x
            dy == snake_y' - snake_y
        IN  /\ handler' = "handle_quit" =>
                /\ raised' <=> IsQuitEvent(e)
                /\ UNCHANGED <<snake_x, snake_y, aim>>
            /\ handler' = "Turret.handle_event" =>
                /\ aim' # aim <=> IsAimEvent(e)
                /\ aim' \in {aim, (aim + AIM_SENSITIVITY) % 360,
                             (aim + 360 - AIM_SENSITIVITY) % 360}
                /\ ~raised'
                /\ UNCHANGED <<snake_x, snake_y>>
            /\ handler' = "Snake.handle_input" =>
                /\ <<dx, dy>> # <<0, 0>> <=> IsArrowPress(e)
                /\ <<dx, dy>> \in {<<0, 0>>, <<1, 0>>, <<-1, 0>>, <<0, 1>>, <<0, -1>>}
                /\ ~raised'
                /\ UNCHANGED aim
      ]_vars

\* C15 witness: after one aim step and one move, the snake's handler is given
\* a release of an arrow key and nothing has changed.
ArrowReleaseGivenToSnake ==
    /\ handler = "Snake.handle_input"
    /\ last_event = [type |-> "KEYUP", key |-> "K_UP"]
    /\ aim = Rotate(INITIAL_ANGLE % 360, AIM_SENSITIVITY)
    /\ <<snake_x, snake_y>> = <<1, 0>>
    /\ presses = 1
    /\ ~raised

\* The cells of a grid of that size.
CellsOf(size) == { Point(x, y) : x \in 0..(size[1] - 1), y \in 0..(size[2] - 1) }

\* C16: for every grid with columns >= 1 and rows >= 1, a randomly spawned
\* cell has 0 <= x < columns and 0 <= y < rows whatever the random source
\* gives, and every in-bounds cell is a possible outcome.
RandomPointInBounds ==
    /\ grid[1] >= 1 /\ grid[2] >= 1
    /\ 0 <= apple.x /\ apple.x < grid[1]
    /\ 0 <= apple.y /\ apple.y < grid[2]
    /\ RandomPoint(grid) = CellsOf(grid)

\* C16 witness: on a 3 x 2 grid the apple was spawned in the farthest cell.
AppleInFarthestCell ==
    /\ grid = <<3, 2>>
    /\ apple = Point(2, 1)
    /\ gop = "init"

\* C17: collision(a, b) is true exactly when a.x = b.x and a.y = b.y, gives
\* the same answer with its arguments swapped, and is true of a point and
\* itself, for the points compared and for all cells of the grid.
CollisionIffSameCell ==
    /\ gop = "collision" =>
        /\ hit.ab <=> (head.x = apple.x /\ head.y = apple.y)
        /\ hit.ba <=> hit.ab
        /\ hit.aa
    /\ \A a \in CellsOf(grid), b \in CellsOf(grid) :
        /\ Collision(a, b) <=> (a.x = b.x /\ a.y = b.y)
        /\ Collision(a, b) <=> Collision(b, a)
        /\ Collision(a, a)

\* C17 witness: the moving element reached the apple's cell and was compared.
MovedOntoApple ==
    /\ gop = "collision"
    /\ moves > 0
    /\ origin # apple
    /\ head = apple
    /\ hit.ab /\ hit.ba /\ hit.aa

\* C18: an event drain that meets a QUIT event or a KEYUP of q (and only such
\* a drain) ends run() in that same iteration, before the render pass, and
\* once run() has ended nothing happens any more: no logic tick, no event is
\* routed, no frame is rendered.
QuitEndsRunForGood ==
    [][ /\ (Stmt = "events" /\ frame' # frame) =>
            /\ pc' = 0 <=> \E i \in 1..Len(pending) : IsQuitEvent(pending[i])
            /\ pc' = 0 => /\ frame'[Len(frame')] = "quit"
                          /\ \A i \in 1..Len(frame') : frame'[i] # "render"
        /\ pc' = 0 => Stmt = "events"
        /\ pc = 0 => UNCHANGED vars
      ]_vars

\* C18 witness: run() has ended on a quit while a logic tick was due.
EndedWithTickDue ==
    /\ pc = 0
    /\ frame[Len(frame)] = "quit"
    /\ updates = 1
    /\ now > next_tick
    /\ unrouted # <<>>

\* C19: game logic never runs ahead of real time: in every state of the main
\* loop the next deadline is less than the current time plus one tick
\* interval, hence the ticks fired number at most the whole tick intervals
\* elapsed since start plus one.
LogicNeverAheadOfTime ==
    /\ next_tick < now + TICK_STEP
    /\ next_tick = t0 + updates * TICK_STEP
    /\ updates <= ((now - t0) \div TICK_STEP) + 1

\* C19 witness: the second tick fired during the second interval, which is
\* as far ahead as the logic gets.
TwoTicksInSecondInterval ==
    /\ updates = 2
    /\ (now - t0) \div TICK_STEP = 1
    /\ next_tick > now
    /\ LastCheck.fired

\* Where the projectile was before its last step.
BeforeStep(p) == <<p.pos[1] - Velocity(p)[1], p.pos[2] - Velocity(p)[2]>>

\* C20: right after every ProjectileManager.process_logic call each
\* projectile left in the set is MOVING and has its position inside the
\* arena, also when it was created outside the arena before the call.
SurvivorsMovingInsideArena ==
    op = "process_logic" =>
        \A id \in projectiles :
            /\ heap[id].state = "MOVING"
            /\ ~OutsideArena(heap[id].pos)

\* C20 witness: a projectile created outside the arena was stepped into it
\* by the call and is still in the set.
CreatedOutsideSteppedInside ==
    /\ op = "process_logic"
    /\ \E id \in projectiles :
        /\ stepped[id] = 1
        /\ heap[id].pos = <<10, 30>>
        /\ OutsideArena(BeforeStep(heap[id]))
        /\ ~OutsideArena(heap[id].pos)

====
